---------------------------- MODULE Spec2Model ----------------------------
(* A model of the cloning store (CloningRepositoriesStore) and of the git   *)
(* fetch helpers (getFetchArgs, fetchRefspec, fastForwardBranches).         *)
(*                                                                          *)
(* Three specifications share the module's variables:                       *)
(*   Spec      the cloning store under any interleaving of clone calls,     *)
(*             progress callbacks, runner exits, promise settlements and    *)
(*             explicit remove calls;                                       *)
(*   SpecFetch one call of fetch or fetchRefspec: argument list and exit    *)
(*             code handling;                                               *)
(*   SpecFF    one call of fastForwardBranches: exit code handling and the  *)
(*             parsing of the combined output.                              *)
EXTENDS Integers, Sequences, FiniteSets, TLC

VARIABLES
    CloningRepositoryID, \* the module-level id counter
    _repositories,       \* the store's live list (sequence of repository ids)
    stateByID,           \* the store's map id -> ICloningRepositoryState
    runner,              \* per repository: LocalGitOperations.clone's process
    runnerError,         \* per repository: the error the runner failed with
    promise,             \* per repository: the promise returned by clone()
    promiseError,        \* per repository: the reason that promise rejected with
    emitted,             \* number of 'did-update' events emitted so far
    lastEmit,            \* which call emitted the latest 'did-update' event, for which id
                         \* (for clone with which path, for the progress
                         \* callback with which line and parser result)
    linesSent,           \* number of progress lines delivered so far
    removeCalls,         \* number of explicit remove() calls so far
    observed,            \* what a 'did-update' listener read at the latest event
    \* one call of fetch or fetchRefspec
    fetchCall,           \* the call's inputs
    fetchPc,             \* where the call is
    fetchArgs,           \* the argument list handed to git
    fetchOpts,           \* the execution options handed to git
    fetchExit,           \* the exit code of the git process
    sinkEvents,          \* the events progressCallback has been called with
    gitOutput,           \* what the progress parser reports of git's output so far
    \* one call of fastForwardBranches
    ffBranches,          \* the branches argument
    ffPc,                \* where the call is
    ffArgs,              \* the argument list handed to git
    ffExit,              \* the exit code of the git process
    ffOutput,            \* result.combinedOutput
    ffResult             \* the branches the call resolved with

storeVars == <<CloningRepositoryID, _repositories, stateByID, runner,
               runnerError, promise, promiseError, emitted, lastEmit,
               linesSent, removeCalls, observed>>

fetchVars == <<fetchCall, fetchPc, fetchArgs, fetchOpts, fetchExit, sinkEvents,
               gitOutput>>

ffVars == <<ffBranches, ffPc, ffArgs, ffExit, ffOutput, ffResult>>

vars == <<storeVars, fetchVars, ffVars>>

-----------------------------------------------------------------------------
(* Bounds *)

MaxRepositories == 2
MaxLines == 2
MaxRemoves == 2

-----------------------------------------------------------------------------
(* Values *)

\* null, as getRepositoryState returns it.
Null == [null |-> TRUE]

\* No error: the runner has not failed, the promise has not rejected.
NoError == "none"

IDs == 1..MaxRepositories

Urls == {"https://host/x.git"}
Paths == {"/a/x", "/b/y"}

\* CloneProgressParser.parse returns null (indeterminate), written
\* NullProgress here, or a value between 0 and 1.
NullProgress == -1

\* The lines the clone runner may hand to the progress callback, each with
\* what progressParser.parse returns for it (the parser keeps state between
\* calls: one line may parse to more than one value).
ParsedLines ==
    { <<"Receiving objects:  50% (1/2)", 0>>,
      <<"Receiving objects:  50% (1/2)", 1>>,
      <<"remote: Compressing objects", NullProgress>> }

\* Errors the clone runner may reject with.
Errors == {"ExternalProcessError(128)", "ExternalProcessError(1)"}

-----------------------------------------------------------------------------
(* Map and array helpers *)

MapHas(m, k) == k \in DOMAIN m

MapSet(m, k, v) == [x \in (DOMAIN m) \cup {k} |-> IF x = k THEN v ELSE m[x]]

MapDelete_Clears(m, k) == <<>>

MapDelete(m, k) == [x \in (DOMAIN m) \ {k} |-> m[x]]

\* Array.prototype.findIndex, 1-based; 0 stands for -1.
FindIndex(s, id) ==
    IF \E i \in 1..Len(s) : s[i] = id
    THEN CHOOSE i \in 1..Len(s) : s[i] = id /\ \A j \in 1..(i - 1) : s[j] # id
    ELSE 0

\* Array.prototype.splice(i, 1), 1-based.
Splice1(s, i) == SubSeq(s, 1, i - 1) \o SubSeq(s, i + 1, Len(s))

Range(s) == {s[i] : i \in 1..Len(s)}

-----------------------------------------------------------------------------
(* The store's queries *)

\* get repositories(): a copy of the live list.
repositories == _repositories

\* getRepositoryState(repository): stateByID.get(id) || null.
getRepositoryState(id) == IF MapHas(stateByID, id) THEN stateByID[id] ELSE Null

-----------------------------------------------------------------------------
(* The store's operations *)

\* No call of fastForwardBranches is under way.
FFIdle ==
    /\ ffBranches = <<>>
    /\ ffPc = "idle"
    /\ ffArgs = <<>>
    /\ ffExit = -1
    /\ ffOutput = <<>>
    /\ ffResult = <<>>

\* No call of fetch or fetchRefspec is under way.
FetchIdle ==
    /\ fetchCall = [fn |-> "none"]
    /\ fetchPc = "idle"
    /\ fetchArgs = <<>>
    /\ fetchOpts = [successExitCodes |-> {}]
    /\ fetchExit = -1
    /\ sinkEvents = <<>>
    /\ gitOutput = <<>>

\* A new store: no repository has been constructed.
StoreIdle ==
    /\ CloningRepositoryID = 1
    /\ _repositories = <<>>
    /\ stateByID = <<>>
    /\ runner = [i \in IDs |-> "none"]
    /\ runnerError = [i \in IDs |-> NoError]
    /\ promise = [i \in IDs |-> "none"]
    /\ promiseError = [i \in IDs |-> NoError]
    /\ emitted = 0
    /\ lastEmit = [by |-> "none", id |-> 0]
    /\ linesSent = 0
    /\ removeCalls = 0
    /\ observed = [repositories |-> <<>>, stateByID |-> <<>>]

Init ==
    /\ StoreIdle
    /\ FetchIdle
    /\ FFIdle

\* emitUpdate(), called from `call`: the listeners run inside the call and
\* read the list and the map as they are then.
EmitUpdate(call, list, map) ==
    /\ emitted' = emitted + 1
    /\ lastEmit' = call
    /\ observed' = [repositories |-> list, stateByID |-> map]

\* The state clone() seeds the map with.
InitialState_WithValue(path) ==
    [output |-> "Cloning into " \o path, progressValue |-> 0]

InitialState(path) == [output |-> "Cloning into " \o path]

\* The state the progress callback stores for a line and its parse result.
ProgressState(progress, progressValue) ==
    IF progressValue # NullProgress
    THEN [output |-> progress, progressValue |-> progressValue]
    ELSE [output |-> progress]

\* The list after `_repositories.push(repository)`.
Push_AtFront(s, e) == <<e>> \o s

Push(s, e) == Append(s, e)

\* The list after remove(repository).
RemoveFromList_NoSplice(s, id) == s

RemoveFromList(s, id) ==
    LET repoIndex == FindIndex(s, id)
    IN  IF repoIndex > 0 THEN Splice1(s, repoIndex) ELSE s

\* The counter after `id = CloningRepositoryID++`.
Increment_NotDone(counter) == counter

Increment(counter) == counter + 1

\* new CloningRepository(path, url) outside the store: takes an id from the
\* module-level counter; the repository is unknown to the store.
NewCloningRepository(url, path) ==
    /\ CloningRepositoryID <= MaxRepositories
    /\ CloningRepositoryID' = Increment(CloningRepositoryID)
    /\ runner' = [runner EXCEPT ![CloningRepositoryID] = "unstarted"]
    /\ UNCHANGED <<fetchVars, ffVars>>
    /\ UNCHANGED <<_repositories, stateByID, runnerError, promise, promiseError,
                   emitted, lastEmit, linesSent, removeCalls, observed>>

Clone_EmitsBeforeState(url, path) ==
    /\ CloningRepositoryID <= MaxRepositories
    /\ LET id == CloningRepositoryID
       IN  /\ CloningRepositoryID' = Increment(id)
           /\ _repositories' = Push(_repositories, id)
           /\ stateByID' = MapSet(stateByID, id, InitialState(path))
           /\ runner' = [runner EXCEPT ![id] = "running"]
           /\ promise' = [promise EXCEPT ![id] = "pending"]
           /\ EmitUpdate([by |-> "clone", id |-> id, path |-> path],
                         _repositories', stateByID)
    /\ UNCHANGED <<fetchVars, ffVars>>
    /\ UNCHANGED <<runnerError, promiseError, linesSent, removeCalls>>

\* clone(url, path): up to the return of the promise.
Clone(url, path) ==
    /\ CloningRepositoryID <= MaxRepositories
    /\ LET id == CloningRepositoryID
       IN  /\ CloningRepositoryID' = Increment(id)
           /\ _repositories' = Push(_repositories, id)
           /\ stateByID' = MapSet(stateByID, id, InitialState(path))
           /\ runner' = [runner EXCEPT ![id] = "running"]
           /\ promise' = [promise EXCEPT ![id] = "pending"]
           /\ EmitUpdate([by |-> "clone", id |-> id, path |-> path],
                         _repositories', stateByID')
    /\ UNCHANGED <<fetchVars, ffVars>>
    /\ UNCHANGED <<runnerError, promiseError, linesSent, removeCalls>>

\* The progress callback clone() hands to the runner, called with one line.
Progress_Patches(id, progress, progressValue) ==
    /\ runner[id] = "running"
    /\ linesSent < MaxLines
    /\ stateByID' =
          MapSet(stateByID, id,
                 IF /\ progressValue = NullProgress
                    /\ MapHas(stateByID, id)
                    /\ "progressValue" \in DOMAIN stateByID[id]
                 THEN [output |-> progress,
                       progressValue |-> stateByID[id].progressValue]
                 ELSE ProgressState(progress, progressValue))
    /\ EmitUpdate([by |-> "progress", id |-> id, progress |-> progress,
                   progressValue |-> progressValue],
                  _repositories, stateByID')
    /\ linesSent' = linesSent + 1
    /\ UNCHANGED <<fetchVars, ffVars>>
    /\ UNCHANGED <<CloningRepositoryID, _repositories, runner, runnerError,
                   promise, promiseError, removeCalls>>

Progress(id, progress, progressValue) ==
    /\ runner[id] = "running"
    /\ linesSent < MaxLines
    /\ stateByID' = MapSet(stateByID, id, ProgressState(progress, progressValue))
    /\ EmitUpdate([by |-> "progress", id |-> id, progress |-> progress,
                   progressValue |-> progressValue],
                  _repositories, stateByID')
    /\ linesSent' = linesSent + 1
    /\ UNCHANGED <<fetchVars, ffVars>>
    /\ UNCHANGED <<CloningRepositoryID, _repositories, runner, runnerError,
                   promise, promiseError, removeCalls>>

\* The runner's process exits and its promise resolves.
RunnerSucceeds(id) ==
    /\ runner[id] = "running"
    /\ runner' = [runner EXCEPT ![id] = "succeeded"]
    /\ UNCHANGED <<fetchVars, ffVars>>
    /\ UNCHANGED <<CloningRepositoryID, _repositories, stateByID, runnerError,
                   promise, promiseError, emitted, lastEmit, linesSent,
                   removeCalls, observed>>

\* The runner's promise rejects with an error.
RunnerFails(id, error) ==
    /\ runner[id] = "running"
    /\ runner' = [runner EXCEPT ![id] = "failed"]
    /\ runnerError' = [runnerError EXCEPT ![id] = error]
    /\ UNCHANGED <<fetchVars, ffVars>>
    /\ UNCHANGED <<CloningRepositoryID, _repositories, stateByID,
                   promise, promiseError, emitted, lastEmit, linesSent,
                   removeCalls, observed>>

\* .then(() => { this.remove(repository) }) after the runner resolved: the
\* callback runs remove() and the promise clone() returned resolves.
ThenFulfilled(id) ==
    /\ runner[id] = "succeeded"
    /\ promise[id] = "pending"
    /\ stateByID' = MapDelete(stateByID, id)
    /\ _repositories' = RemoveFromList(_repositories, id)
    /\ EmitUpdate([by |-> "then", id |-> id], _repositories', stateByID')
    /\ promise' = [promise EXCEPT ![id] = "resolved"]
    /\ UNCHANGED <<fetchVars, ffVars>>
    /\ UNCHANGED <<CloningRepositoryID, runner, runnerError, promiseError,
                   linesSent, removeCalls>>

ThenRejected_Swallowed(id) ==
    /\ runner[id] = "failed"
    /\ promise[id] = "pending"
    /\ promise' = [promise EXCEPT ![id] = "resolved"]
    /\ UNCHANGED <<fetchVars, ffVars>>
    /\ UNCHANGED <<CloningRepositoryID, _repositories, stateByID, runner,
                   runnerError, promiseError, emitted, lastEmit, linesSent,
                   removeCalls, observed>>

\* .then(onFulfilled) after the runner rejected: there is no rejection
\* handler, the callback is skipped and the returned promise rejects with the
\* runner's error.
ThenRejected(id) ==
    /\ runner[id] = "failed"
    /\ promise[id] = "pending"
    /\ promise' = [promise EXCEPT ![id] = "rejected"]
    /\ promiseError' = [promiseError EXCEPT ![id] = runnerError[id]]
    /\ UNCHANGED <<fetchVars, ffVars>>
    /\ UNCHANGED <<CloningRepositoryID, _repositories, stateByID, runner,
                   runnerError, emitted, lastEmit, linesSent, removeCalls,
                   observed>>

\* remove(repository), called by a user of the store.
Remove(id) ==
    /\ runner[id] # "none"
    /\ removeCalls < MaxRemoves
    /\ stateByID' = MapDelete(stateByID, id)
    /\ _repositories' = RemoveFromList(_repositories, id)
    /\ EmitUpdate([by |-> "remove", id |-> id], _repositories', stateByID')
    /\ removeCalls' = removeCalls + 1
    /\ UNCHANGED <<fetchVars, ffVars>>
    /\ UNCHANGED <<CloningRepositoryID, runner, runnerError, promise,
                   promiseError, linesSent>>

Next ==
    \/ \E url \in Urls, path \in Paths : NewCloningRepository(url, path)
    \/ \E url \in Urls, path \in Paths : Clone(url, path)
    \/ \E id \in IDs, parsed \in ParsedLines : Progress(id, parsed[1], parsed[2])
    \/ \E id \in IDs : RunnerSucceeds(id)
    \/ \E id \in IDs, error \in Errors : RunnerFails(id, error)
    \/ \E id \in IDs : ThenFulfilled(id)
    \/ \E id \in IDs : ThenRejected(id)
    \/ \E id \in IDs : Remove(id)

Spec == Init /\ [][Next]_vars

-----------------------------------------------------------------------------
(* Properties of the store *)

Tracked(id) == id \in Range(repositories)

HasState(id) == getRepositoryState(id) # Null

Started(id) == promise[id] # "none"

\* A step of clone(): the event it emits names the new repository.
CloneStep(id) ==
    /\ emitted' = emitted + 1
    /\ lastEmit'.by = "clone"
    /\ lastEmit'.id = id

\* A step of the then-callback of repository id.
ThenStep(id) == promise[id] = "pending" /\ promise'[id] = "resolved"

\* A step of an explicit remove(repository) call.
RemoveStep(id) ==
    /\ removeCalls' = removeCalls + 1
    /\ lastEmit' = [by |-> "remove", id |-> id]

\* C1: once the failure of an operation's runner has been delivered (the
\* promise clone() returned has rejected), the operation is no longer in
\* repositories and getRepositoryState returns null for it.
C1_FailedCloneIsRemoved ==
    \A id \in IDs :
        promise[id] = "rejected" => (~Tracked(id) /\ ~HasState(id))

\* C2: in every reachable state the ids with an entry in stateByID are
\* exactly the ids of the repositories in _repositories.
C2_StateMapMatchesList == DOMAIN stateByID = Range(_repositories)

\* C3, as claimed: when the completion of an operation is delivered, the
\* operation is removed and exactly one event has been emitted since the
\* event of the operation's last state write (its last progress line, or its
\* start when it had none): the event before the completion's own event is
\* that write's.
C3_Original ==
    [][\A id \in IDs :
          ThenStep(id) =>
              /\ ~Tracked(id)' /\ ~HasState(id)'
              /\ emitted' = emitted + 1
              /\ lastEmit.id = id /\ lastEmit.by \in {"clone", "progress"}]_vars

\* C3, amended: when the completion of an operation is delivered, the
\* operation is removed, it stays removed, and the completion itself emits
\* exactly one event; events of other calls (an explicit remove, another
\* operation's start, progress or completion) may lie between the
\* operation's last progress line and its completion.
C3_CompletionRemovesAndEmitsOnce ==
    /\ [](\A id \in IDs : promise[id] = "resolved" => (~Tracked(id) /\ ~HasState(id)))
    /\ [][\A id \in IDs :
            ThenStep(id) =>
                /\ ~Tracked(id)' /\ ~HasState(id)'
                /\ emitted' = emitted + 1
                /\ lastEmit' = [by |-> "then", id |-> id]]_vars

\* An operation has just completed and is removed; progress lines were
\* delivered, and more events were emitted than one operation's start, one
\* progress line and its completion account for.
C3_Witness ==
    \E id \in IDs :
        /\ promise[id] = "resolved"
        /\ lastEmit = [by |-> "then", id |-> id]
        /\ linesSent > 0
        /\ emitted > 3
        /\ ~Tracked(id) /\ ~HasState(id)

\* C4: once an operation that was started is neither in repositories nor has
\* a state (remove(operation) was called), no later step, whatever lines
\* the process still delivers, brings it back into repositories or gives it
\* a state again.
C4_RemovedStaysUntracked ==
    [][\A id \in IDs :
          (Started(id) /\ ~Tracked(id) /\ ~HasState(id))
              => (~Tracked(id)' /\ ~HasState(id)')]_vars

\* C5: remove(operation) for an operation that is not in repositories (it
\* was removed before, or never started in this store) leaves _repositories
\* and stateByID as they were and emits exactly one event.
C5_RemoveIsIdempotent ==
    [][\A id \in IDs :
          (RemoveStep(id) /\ ~Tracked(id))
              => /\ _repositories' = _repositories
                 /\ stateByID' = stateByID
                 /\ emitted' = emitted + 1]_vars

\* C6: every clone() call takes a fresh id from the counter, which only
\* grows: the id was never given to a repository before, also not to one
\* since removed; the new repository is appended to _repositories with a
\* state entry of its own, and every repository that was in the list stays
\* there with its state untouched, so two operations started one after the
\* other are both listed with distinct ids.
C6_FreshDistinctIds ==
    /\ [](/\ Cardinality(Range(_repositories)) = Len(_repositories)
          /\ \A id \in Range(_repositories) \cup DOMAIN stateByID :
                id < CloningRepositoryID)
    /\ [][/\ CloningRepositoryID' >= CloningRepositoryID
          /\ \A id \in IDs :
                CloneStep(id) =>
                    /\ id = CloningRepositoryID
                    /\ CloningRepositoryID' > id
                    /\ runner[id] = "none" /\ ~Tracked(id) /\ ~HasState(id)
                    /\ _repositories' = Append(_repositories, id)
                    /\ HasState(id)'
                    /\ \A other \in Range(_repositories) :
                          /\ other # id
                          /\ Tracked(other)'
                          /\ getRepositoryState(other)' = getRepositoryState(other)]_vars

\* Two operations started before either completed: both are listed, with
\* distinct ids and each with its own state.
C6_Witness ==
    \E i, j \in IDs :
        /\ i # j
        /\ Tracked(i) /\ Tracked(j)
        /\ runner[i] = "running" /\ runner[j] = "running"
        /\ HasState(i) /\ HasState(j)
        /\ getRepositoryState(i) # getRepositoryState(j)

\* C7: the promise clone() returns settles as the runner did: it is resolved
\* only when the runner succeeded and the operation has been removed, it is
\* rejected only when the runner failed, and then with the runner's error; a
\* failed runner never leads to a resolved promise.
C7_PromiseFollowsRunner ==
    \A id \in IDs :
        /\ promise[id] = "resolved" =>
              (runner[id] = "succeeded" /\ ~Tracked(id) /\ ~HasState(id))
        /\ promise[id] = "rejected" =>
              (runner[id] = "failed" /\ promiseError[id] = runnerError[id]
                  /\ promiseError[id] \in Errors)
        /\ runner[id] = "failed" => promise[id] \in {"pending", "rejected"}

\* One operation's promise has resolved and another's has rejected with the
\* error of its runner.
C7_Witness ==
    \E i, j \in IDs :
        /\ promise[i] = "resolved"
        /\ promise[j] = "rejected"
        /\ promiseError[j] = runnerError[j]
        /\ promiseError[j] \in Errors

\* C13: at every 'did-update' event, whatever the interleaving of clone
\* calls, progress callbacks, completions and removes, a listener that reads
\* the store inside the event finds a state for every repository it finds in
\* repositories.
C13_ListenerSeesStateOfListed ==
    \A id \in Range(observed.repositories) : MapHas(observed.stateByID, id)

\* A listener has been notified of the remove of one of two listed
\* repositories: it finds the other one, with its state.
C13_Witness ==
    /\ Len(observed.repositories) = 1
    /\ lastEmit.by = "remove"
    /\ Started(lastEmit.id)
    /\ lastEmit.id \notin Range(observed.repositories)
    /\ linesSent > 0
    /\ \A id \in Range(observed.repositories) : MapHas(observed.stateByID, id)

\* C14: clone(url, path) registers the repository before it returns: the
\* repository is appended at the end of the list, its state is the line
\* 'Cloning into <path>' of the call's path with no progressValue, the
\* listeners of the event clone emits already find the repository, last in
\* the list and with that state, and when clone returns the runner is still
\* running and the promise is pending.
C14_CloneRegistersSynchronously ==
    [][\A id \in IDs :
          CloneStep(id) =>
              LET seeded == [output |-> "Cloning into " \o lastEmit'.path]
              IN  /\ _repositories' = Append(_repositories, id)
                  /\ getRepositoryState(id)' = seeded
                  /\ DOMAIN seeded = {"output"}
                  /\ emitted' = emitted + 1
                  /\ observed'.repositories = Append(_repositories, id)
                  /\ MapHas(observed'.stateByID, id)
                  /\ observed'.stateByID[id] = seeded
                  /\ runner'[id] = "running"
                  /\ promise'[id] = "pending"]_vars

\* clone('/b/y') has just returned, with another repository listed before.
C14_Witness ==
    /\ lastEmit.by = "clone"
    /\ lastEmit.path = "/b/y"
    /\ Len(repositories) = 2
    /\ repositories[2] = lastEmit.id
    /\ getRepositoryState(lastEmit.id) = [output |-> "Cloning into /b/y"]
    /\ runner[lastEmit.id] = "running"

\* A step of the progress callback of repository id.
ProgressStep(id) ==
    /\ linesSent' = linesSent + 1
    /\ lastEmit'.by = "progress"
    /\ lastEmit'.id = id

\* C15: a progress line the runner delivers for a listed repository replaces
\* the repository's state and emits exactly one event: the new state's output
\* is the line, its progressValue is what the parser returned for the line,
\* and the new state has no progressValue when the parser returned null,
\* whatever the state before had.
C15_ProgressReplacesState ==
    [][\A id \in IDs :
          (Tracked(id) /\ ProgressStep(id)) =>
              LET state == getRepositoryState(id)'
                  value == lastEmit'.progressValue
              IN  /\ state # Null
                  /\ state.output = lastEmit'.progress
                  /\ IF value = NullProgress
                     THEN DOMAIN state = {"output"}
                     ELSE /\ DOMAIN state = {"output", "progressValue"}
                          /\ state.progressValue = value
                  /\ emitted' = emitted + 1]_vars

\* The only repository started has had two lines, the second one with no
\* parser result: its state has that line and no progressValue.
C15_Witness ==
    /\ lastEmit.by = "progress"
    /\ lastEmit.progressValue = NullProgress
    /\ Tracked(lastEmit.id)
    /\ CloningRepositoryID = 2
    /\ linesSent = 2
    /\ getRepositoryState(lastEmit.id) = [output |-> lastEmit.progress]

\* Repository ids are handed out in increasing order, one per clone() call:
\* a list in the order the clones were started is a list of increasing ids.
InStartOrder(s) == \A i, j \in 1..Len(s) : i < j => s[i] < s[j]

CompletionStep(id) == promise[id] = "pending" /\ promise'[id] # "pending"

\* A step made for repository a: a progress line, a completion or a remove.
StepFor(a) == ProgressStep(a) \/ CompletionStep(a) \/ RemoveStep(a)

\* C19 as stated: a progress line, a completion or a remove for repository a
\* leaves every other repository b where it was: listed or not as before, at
\* the same index of repositories, with the same getRepositoryState result.
C19_Original ==
    [][\A a \in IDs :
          StepFor(a) => \A b \in IDs \ {a} :
              LET before == FindIndex(repositories, b)
                  after == FindIndex(repositories', b)
              IN  /\ after > 0 <=> before > 0
                  /\ after = before
                  /\ getRepositoryState(b)' = getRepositoryState(b)]_vars

\* The states of the repositories other than a.
StatesOfOthers(map, a) == [b \in (DOMAIN map) \ {a} |-> map[b]]

\* What a step for repository a leaves alone. Every other repository has
\* the same state after the step, or none as before. The list is the same,
\* or a has been taken out of it: then the repositories that were before a
\* are at the index they had, and those that were after a are one index
\* down.
OthersKept(a) ==
    /\ \/ repositories' = repositories
       \/ \E place \in 1..Len(repositories) :
             /\ repositories[place] = a
             /\ Len(repositories') = Len(repositories) - 1
             /\ \A i \in 1..Len(repositories') :
                   repositories'[i] = IF i < place THEN repositories[i]
                                      ELSE repositories[i + 1]
    /\ StatesOfOthers(stateByID', a) = StatesOfOthers(stateByID, a)

\* C19: a progress line, a completion or a remove for repository a leaves
\* every other repository b listed or not as before and with the same
\* getRepositoryState result; the index of b in repositories is the same
\* after the step, except that it is one less when the step took a out of
\* the list from a place before b. The steps that emit an event are clone's
\* and those of a progress line, a then-callback or a remove, which lastEmit
\* names with their repository; a step that emits nothing, a rejection
\* passing through among them, changes neither the list nor the map.
C19_OthersKeepStateAndOrder ==
    [][IF emitted' = emitted
       THEN repositories' = repositories /\ stateByID' = stateByID
       ELSE lastEmit'.by \in {"progress", "then", "remove"}
                => OthersKept(lastEmit'.id)]_vars

\* The first of two repositories has been removed after the second one had
\* a progress line: the second one is listed, now first, with the state
\* that line gave it.
C19_Witness ==
    /\ lastEmit = [by |-> "remove", id |-> 1]
    /\ Started(1)
    /\ Started(2)
    /\ repositories = <<2>>
    /\ HasState(2)
    /\ "progressValue" \in DOMAIN getRepositoryState(2)

-----------------------------------------------------------------------------
(* fetch and fetchRefspec *)

\* What gitNetworkArguments may return.
NetworkArguments == { <<>>, <<"-c", "credential.helper=">> }

RemoteNames == {"origin", "upstream"}

Refspecs == {"refs/heads/main", "+refs/pull/1/head:refs/remotes/pr/1"}

\* Exit codes of the git process.
ExitCodes == {0, 1, 2, 128}

\* getFetchArgs, given what gitNetworkArguments returned, the value of
\* enableRecurseSubmodulesFlag() and whether progressCallback != null.
getFetchArgs_NoProgressWithSubmodules(networkArguments, remote, recurseSubmodules, hasProgressCallback) ==
    IF recurseSubmodules
    THEN networkArguments \o <<"fetch", "--prune", "--recurse-submodules=on-demand", remote>>
    ELSE IF hasProgressCallback
         THEN networkArguments \o <<"fetch", "--progress", "--prune", remote>>
         ELSE networkArguments \o <<"fetch", "--prune", remote>>

getFetchArgs(networkArguments, remote, recurseSubmodules, hasProgressCallback) ==
    IF recurseSubmodules
    THEN IF hasProgressCallback
         THEN networkArguments \o
                <<"fetch", "--progress", "--prune", "--recurse-submodules=on-demand", remote>>
         ELSE networkArguments \o
                <<"fetch", "--prune", "--recurse-submodules=on-demand", remote>>
    ELSE IF hasProgressCallback
         THEN networkArguments \o <<"fetch", "--progress", "--prune", remote>>
         ELSE networkArguments \o <<"fetch", "--prune", remote>>

\* The argument list fetchRefspec builds.
fetchRefspecArgs(networkArguments, remote, refspec) ==
    networkArguments \o <<"fetch", remote, refspec>>

\* successExitCodes of fetch.
fetchSuccessExitCodes == {0}

\* successExitCodes of fetchRefspec.
fetchRefspecSuccessExitCodes_OnlyZero == {0}

fetchRefspecSuccessExitCodes == {0, 128}

\* git(args, path, name, opts): resolves when the process exits with one of
\* opts.successExitCodes and rejects otherwise.
git(exitCode, opts) ==
    IF exitCode \in opts.successExitCodes THEN "resolved" ELSE "rejected"

MaxGitOutput == 3

\* 'remote: Counting objects'
CountingObjects ==
    <<"r", "e", "m", "o", "t", "e", ":", " ", "C", "o", "u", "n", "t", "i",
      "n", "g", " ", "o", "b", "j", "e", "c", "t", "s">>

\* 'remote: Counting objects: 5, done.'
CountingObjectsDone ==
    <<"r", "e", "m", "o", "t", "e", ":", " ", "C", "o", "u", "n", "t", "i",
      "n", "g", " ", "o", "b", "j", "e", "c", "t", "s", ":", " ", "5", ",",
      " ", "d", "o", "n", "e", ".">>

\* 'remote: Counting'
CountingOnly ==
    <<"r", "e", "m", "o", "t", "e", ":", " ", "C", "o", "u", "n", "t", "i",
      "n", "g">>

\* 'remote: Compressing objects: 100% (3/3)'
CompressingObjects ==
    <<"r", "e", "m", "o", "t", "e", ":", " ", "C", "o", "m", "p", "r", "e",
      "s", "s", "i", "n", "g", " ", "o", "b", "j", "e", "c", "t", "s", ":",
      " ", "1", "0", "0", "%", " ", "(", "3", "/", "3", ")">>

\* ' * [new branch]  main -> origin/main'
NewBranch ==
    <<" ", "*", " ", "[", "n", "e", "w", " ", "b", "r", "a", "n", "c", "h",
      "]", " ", " ", "m", "a", "i", "n", " ", "-", ">", " ", "o", "r", "i",
      "g", "i", "n", "/", "m", "a", "i", "n">>

\* 'Receiving objects:  50% (1/2)'
ReceivingObjects ==
    <<"R", "e", "c", "e", "i", "v", "i", "n", "g", " ", "o", "b", "j", "e",
      "c", "t", "s", ":", " ", " ", "5", "0", "%", " ", "(", "1", "/", "2",
      ")">>

\* What the progress parser may report of a line of git: a progress line
\* (IGitProgress) or any other line (IGitOutput, of kind 'context'), each with
\* the percentage reached.
GitProgress ==
    { [kind |-> "progress", percent |-> 1, details |-> [text |-> ReceivingObjects]],
      [kind |-> "context", percent |-> 0, text |-> CountingObjects],
      [kind |-> "context", percent |-> 0, text |-> CountingObjectsDone],
      [kind |-> "context", percent |-> 0, text |-> CountingOnly],
      [kind |-> "context", percent |-> 1, text |-> CompressingObjects],
      [kind |-> "context", percent |-> 1, text |-> NewBranch] }

\* String.prototype.startsWith
StartsWith(text, prefix) ==
    /\ Len(text) >= Len(prefix)
    /\ SubSeq(text, 1, Len(prefix)) = prefix

\* The callback fetch wires to the parser returns without calling
\* progressCallback.
Punted_AllContext(progress) == progress.kind = "context"

Punted(progress) ==
    /\ progress.kind = "context"
    /\ ~StartsWith(progress.text, CountingObjects)

\* The event that callback hands to progressCallback.
ForwardedProgress(progress, remote) ==
    [kind |-> "fetch",
     title |-> "Fetching " \o remote,
     description |-> IF progress.kind = "progress"
                     THEN progress.details.text ELSE progress.text,
     value |-> progress.percent,
     remote |-> remote]

\* The first event fetch hands to progressCallback.
InitialProgress_WrongValue(remote) ==
    [kind |-> "fetch", title |-> "Fetching " \o remote, value |-> 1, remote |-> remote]

InitialProgress(remote) ==
    [kind |-> "fetch", title |-> "Fetching " \o remote, value |-> 0, remote |-> remote]

FetchInit ==
    /\ StoreIdle
    /\ FFIdle
    /\ \E fn \in {"fetch", "fetchRefspec"},
          networkArguments \in NetworkArguments,
          remote \in RemoteNames,
          refspec \in Refspecs,
          recurseSubmodules \in BOOLEAN,
          hasProgressCallback \in BOOLEAN :
            fetchCall = [fn |-> fn,
                         networkArguments |-> networkArguments,
                         remote |-> remote,
                         refspec |-> refspec,
                         enableRecurseSubmodulesFlag |-> recurseSubmodules,
                         hasProgressCallback |-> hasProgressCallback]
    /\ fetchPc = "called"
    /\ fetchArgs = <<>>
    /\ fetchOpts = [successExitCodes |-> {}]
    /\ fetchExit = -1
    /\ sinkEvents = <<>>
    /\ gitOutput = <<>>

\* fetch, up to the initial progress event: the options are built and, with
\* a progressCallback, the callback receives the initial event.
FetchPrepare ==
    /\ fetchCall.fn = "fetch"
    /\ fetchPc = "called"
    /\ fetchOpts' = [successExitCodes |-> fetchSuccessExitCodes]
    /\ sinkEvents' = IF fetchCall.hasProgressCallback
                     THEN Append(sinkEvents, InitialProgress(fetchCall.remote))
                     ELSE sinkEvents
    /\ fetchPc' = "prepared"
    /\ UNCHANGED <<storeVars, ffVars>>
    /\ UNCHANGED <<fetchCall, fetchArgs, fetchExit, gitOutput>>

\* fetch, from getFetchArgs to the start of the git process.
FetchRunGit ==
    /\ fetchCall.fn = "fetch"
    /\ fetchPc = "prepared"
    /\ fetchArgs' = getFetchArgs(fetchCall.networkArguments, fetchCall.remote,
                                 fetchCall.enableRecurseSubmodulesFlag,
                                 fetchCall.hasProgressCallback)
    /\ fetchPc' = "running"
    /\ UNCHANGED <<storeVars, ffVars>>
    /\ UNCHANGED <<fetchCall, fetchOpts, fetchExit, sinkEvents, gitOutput>>

\* fetchRefspec, up to the start of the git process.
FetchRefspecRunGit ==
    /\ fetchCall.fn = "fetchRefspec"
    /\ fetchPc = "called"
    /\ fetchOpts' = [successExitCodes |-> fetchRefspecSuccessExitCodes]
    /\ fetchArgs' = fetchRefspecArgs(fetchCall.networkArguments, fetchCall.remote,
                                     fetchCall.refspec)
    /\ fetchPc' = "running"
    /\ UNCHANGED <<storeVars, ffVars>>
    /\ UNCHANGED <<fetchCall, fetchExit, sinkEvents, gitOutput>>

\* The git process exits: `await git(...)` resolves or rejects, and so does
\* the promise of fetch or fetchRefspec.
FetchGitExits(exitCode) ==
    /\ fetchPc = "running"
    /\ fetchExit' = exitCode
    /\ fetchPc' = git(exitCode, fetchOpts)
    /\ UNCHANGED <<storeVars, ffVars>>
    /\ UNCHANGED <<fetchCall, fetchArgs, fetchOpts, sinkEvents, gitOutput>>

\* git prints a line while it runs. With a progressCallback, fetch has wired
\* the parser's report of the line to its own callback, which forwards it or
\* drops it; otherwise nobody listens.
FetchGitProgress(progress) ==
    /\ fetchPc = "running"
    /\ Len(gitOutput) < MaxGitOutput
    /\ gitOutput' = Append(gitOutput, progress)
    /\ sinkEvents' =
          IF fetchCall.fn = "fetch" /\ fetchCall.hasProgressCallback
                /\ ~Punted(progress)
          THEN Append(sinkEvents, ForwardedProgress(progress, fetchCall.remote))
          ELSE sinkEvents
    /\ UNCHANGED <<storeVars, ffVars>>
    /\ UNCHANGED <<fetchCall, fetchPc, fetchArgs, fetchOpts, fetchExit>>

FetchNext ==
    \/ FetchPrepare
    \/ FetchRunGit
    \/ FetchRefspecRunGit
    \/ \E progress \in GitProgress : FetchGitProgress(progress)
    \/ \E exitCode \in ExitCodes : FetchGitExits(exitCode)

SpecFetch == FetchInit /\ [][FetchNext]_vars

-----------------------------------------------------------------------------
(* Properties of fetch and fetchRefspec *)

FetchStarted == fetchPc \in {"running", "resolved", "rejected"}

FetchSettled == fetchPc \in {"resolved", "rejected"}

\* The 1-based position of the first occurrence of token in args, 0 if none.
PositionOf(args, token) ==
    IF token \in Range(args)
    THEN CHOOSE i \in 1..Len(args) :
            args[i] = token /\ \A j \in 1..(i - 1) : args[j] # token
    ELSE 0

\* C8: fetchRefspec resolves when git exits with 0 or 128 and rejects for
\* every other exit code; its argument list is the network arguments,
\* 'fetch', the remote name and the refspec, without '--prune' and without
\* '--progress'.
C8_FetchRefspec ==
    fetchCall.fn = "fetchRefspec" =>
        /\ FetchSettled =>
              /\ fetchPc = "resolved" <=> fetchExit \in {0, 128}
              /\ fetchPc = "rejected" <=> fetchExit \notin {0, 128}
        /\ FetchStarted =>
              /\ fetchArgs = fetchCall.networkArguments \o
                                <<"fetch", fetchCall.remote, fetchCall.refspec>>
              /\ "--prune" \notin Range(fetchArgs)
              /\ "--progress" \notin Range(fetchArgs)

\* fetchRefspec has resolved after git exited with 128.
C8_Witness ==
    /\ fetchCall.fn = "fetchRefspec"
    /\ fetchPc = "resolved"
    /\ fetchExit = 128
    /\ Len(fetchArgs) > 3

\* C9: whatever the progress sink and the submodule toggle are, the argument
\* list of fetch contains '--prune', contains '--progress' exactly when a
\* progress sink is supplied, contains '--recurse-submodules=on-demand'
\* exactly when the toggle is on, ends with the remote name, and has
\* '--progress' before the submodule flag when it has both.
C9_FetchArgs ==
    (fetchCall.fn = "fetch" /\ FetchStarted) =>
        /\ "--prune" \in Range(fetchArgs)
        /\ "--progress" \in Range(fetchArgs) <=> fetchCall.hasProgressCallback
        /\ "--recurse-submodules=on-demand" \in Range(fetchArgs)
              <=> fetchCall.enableRecurseSubmodulesFlag
        /\ fetchArgs[Len(fetchArgs)] = fetchCall.remote
        /\ ("--progress" \in Range(fetchArgs)
              /\ "--recurse-submodules=on-demand" \in Range(fetchArgs))
              => PositionOf(fetchArgs, "--progress")
                    < PositionOf(fetchArgs, "--recurse-submodules=on-demand")
        /\ SubSeq(fetchArgs, 1, Len(fetchCall.networkArguments))
              = fetchCall.networkArguments
        /\ fetchArgs[Len(fetchCall.networkArguments) + 1] = "fetch"

\* fetch runs git with a progress sink and the submodule toggle on: both
\* optional flags are in the list.
C9_Witness ==
    /\ fetchCall.fn = "fetch"
    /\ FetchStarted
    /\ fetchCall.hasProgressCallback
    /\ fetchCall.enableRecurseSubmodulesFlag
    /\ "--progress" \in Range(fetchArgs)
    /\ "--recurse-submodules=on-demand" \in Range(fetchArgs)

\* The parser's report e is one the claim C12 says is forwarded.
C12_Kept(e) == e.kind # "context" \/ StartsWith(e.text, CountingObjects)

\* The text of the parser's report e.
C12_Text(e) == IF e.kind = "progress" THEN e.details.text ELSE e.text

\* C12: during fetch with a progress sink, the events the sink has received
\* after the initial event are the parser's reports, in the order of arrival
\* and each once, without the reports of kind 'context' whose text does not
\* start with 'remote: Counting objects'; every report of another kind is
\* among them.
C12_ForwardedInOrder ==
    (fetchCall.fn = "fetch" /\ fetchCall.hasProgressCallback /\ FetchStarted) =>
        LET kept == SelectSeq(gitOutput, C12_Kept)
            forwarded == Tail(sinkEvents)
        IN  /\ sinkEvents # <<>>
            /\ Len(forwarded) = Len(kept)
            /\ \A i \in 1..Len(kept) :
                  /\ forwarded[i].description = C12_Text(kept[i])
                  /\ forwarded[i].value = kept[i].percent
                  /\ forwarded[i].kind = "fetch"
                  /\ forwarded[i].remote = fetchCall.remote

\* The sink has received a 'context' report that starts with
\* 'remote: Counting objects' and a progress report, one other 'context'
\* report was dropped.
C12_Witness ==
    /\ fetchCall.fn = "fetch" /\ fetchCall.hasProgressCallback
    /\ Len(gitOutput) = 3
    /\ Len(sinkEvents) = 3
    /\ gitOutput[1].kind = "context" /\ gitOutput[1].text = CompressingObjects
    /\ gitOutput[2].kind = "context" /\ gitOutput[2].text = CountingObjectsDone
    /\ gitOutput[3].kind = "progress"
    /\ sinkEvents[2].description = CountingObjectsDone
    /\ sinkEvents[3].description = ReceivingObjects

\* C20: with a progress sink, the first event the sink receives is the
\* initial event, with value 0 and the remote's name: the sink has it before
\* git is started and before any line of git is reported, and has nothing
\* before it; without a sink no event is ever produced.
C20_InitialEventFirst ==
    /\ fetchPc = "called" => sinkEvents = <<>>
    /\ (fetchCall.fn = "fetch" /\ fetchCall.hasProgressCallback
          /\ fetchPc # "called") =>
          /\ sinkEvents # <<>>
          /\ sinkEvents[1] = [kind |-> "fetch",
                              title |-> "Fetching " \o fetchCall.remote,
                              value |-> 0,
                              remote |-> fetchCall.remote]
          /\ fetchPc = "prepared" => (Len(sinkEvents) = 1 /\ gitOutput = <<>>)
    /\ (fetchCall.fn = "fetch" /\ ~fetchCall.hasProgressCallback) => sinkEvents = <<>>

\* With a sink: the initial event and one more have been received. 
C20_Witness ==
    /\ fetchCall.fn = "fetch" /\ fetchCall.hasProgressCallback
    /\ Len(sinkEvents) = 2
    /\ sinkEvents[1].value = 0
    /\ sinkEvents[1].remote = fetchCall.remote
    /\ sinkEvents[2].description = ReceivingObjects

-----------------------------------------------------------------------------
(* fastForwardBranches *)

\* Strings that the code takes apart are sequences of characters.
LF == "\n"

SP == " "

DotDot == <<".", ".">>

Main == <<"m", "a", "i", "n">>

Dev == <<"d", "e", "v">>

\* 'From .'
FromLine == <<"F", "r", "o", "m", " ", ".">>

\* '+ 1111111..2222222  refs/heads/main  main'
ForcedMainLine == 
    <<"+", " ", "1", "1", "1", "1", "1", "1", "1", ".", ".", "2", "2", "2",
      "2", "2", "2", "2", " ", " ", "r", "e", "f", "s", "/", "h", "e", "a",
      "d", "s", "/", "m", "a", "i", "n", " ", " ", "m", "a", "i", "n">>

\* '   1111111..2222222  refs/heads/main  main'
UpdatedMainLine == 
    <<" ", " ", " ", "1", "1", "1", "1", "1", "1", "1", ".", ".", "2", "2",
      "2", "2", "2", "2", "2", " ", " ", "r", "e", "f", "s", "/", "h", "e",
      "a", "d", "s", "/", "m", "a", "i", "n", " ", " ", "m", "a", "i", "n">>

\* '   3333333..4444444  refs/heads/dev  dev'
UpdatedDevLine == 
    <<" ", " ", " ", "3", "3", "3", "3", "3", "3", "3", ".", ".", "4", "4",
      "4", "4", "4", "4", "4", " ", " ", "r", "e", "f", "s", "/", "h", "e",
      "a", "d", "s", "/", "d", "e", "v", " ", " ", "d", "e", "v">>

\* ' = [up to date]      refs/heads/dev  dev'
UpToDateDevLine == 
    <<" ", "=", " ", "[", "u", "p", " ", "t", "o", " ", "d", "a", "t", "e",
      "]", " ", " ", " ", " ", " ", " ", "r", "e", "f", "s", "/", "h", "e",
      "a", "d", "s", "/", "d", "e", "v", " ", " ", "d", "e", "v">>

EmptyLine == <<>>

MaxOutputLines == 2

\* The lines git may print after the 'From .' line.
OutputLines ==
    {ForcedMainLine, UpdatedMainLine, UpdatedDevLine, UpToDateDevLine, EmptyLine}

RECURSIVE JoinLines(_)
\* The lines, each preceded by a newline.
JoinLines(lines) ==
    IF lines = <<>> THEN <<>>
    ELSE <<LF>> \o Head(lines) \o JoinLines(Tail(lines))

\* The combined outputs of git: 'From .' and up to MaxOutputLines lines, with
\* or without a newline at the end.
CombinedOutputs ==
    LET bodies == UNION { [1..n -> OutputLines] : n \in 0..MaxOutputLines }
    IN  { FromLine \o JoinLines(b) \o end : b \in bodies, end \in {<<>>, <<LF>>} }

MainBranch == [name |-> Main, upstream |-> "origin/main"]

DevBranch == [name |-> Dev, upstream |-> "origin/dev"]

\* The lists of branches fastForwardBranches may be called with.
BranchLists ==
    { <<MainBranch, DevBranch>>, <<DevBranch, MainBranch>>, <<MainBranch>>,
      <<DevBranch>>, <<>> }

\* sep occurs in s at position i (1-based).
OccursAt(s, sep, i) ==
    /\ i + Len(sep) - 1 <= Len(s)
    /\ SubSeq(s, i, i + Len(sep) - 1) = sep

\* The first position from `from` on at which sep occurs in s, 0 if none.
NextOccurrence(s, sep, from) ==
    IF \E i \in from..Len(s) : OccursAt(s, sep, i)
    THEN CHOOSE i \in from..Len(s) :
            OccursAt(s, sep, i) /\ \A j \in from..(i - 1) : ~OccursAt(s, sep, j)
    ELSE 0

RECURSIVE SplitFrom(_, _, _)
\* The pieces of s from position `from` on: the occurrences of sep are taken
\* from left to right and do not overlap.
SplitFrom(s, sep, from) ==
    LET i == NextOccurrence(s, sep, from)
    IN  IF i = 0
        THEN <<SubSeq(s, from, Len(s))>>
        ELSE <<SubSeq(s, from, i - 1)>> \o SplitFrom(s, sep, i + Len(sep))

\* String.prototype.split(sep), sep not empty.
Split(s, sep) == SplitFrom(s, sep, 1)

\* String.prototype.indexOf(sep): 0-based, -1 when sep does not occur.
IndexOf(s, sep) == NextOccurrence(s, sep, 1) - 1

\* lines.splice(0, 1)
SpliceFirst(lines) == IF lines = <<>> THEN lines ELSE Tail(lines)

\* lines.splice(-1, 1)
SpliceLast(lines) == IF lines = <<>> THEN lines ELSE SubSeq(lines, 1, Len(lines) - 1)

\* The lines of the combined output that the loop examines.
ExaminedLines(combinedOutput) ==
    SpliceLast(SpliceFirst(Split(combinedOutput, <<LF>>)))

\* line.split(' ').filter(piece => piece.length > 0)
Pieces_NotFiltered(line) == Split(line, <<SP>>)

Pieces(line) == SelectSeq(Split(line, <<SP>>), LAMBDA piece : Len(piece) > 0)

\* The loop goes on to the next line without recording anything.
Skipped(pieces) ==
    \/ Len(pieces) = 0
    \/ IndexOf(pieces[1], DotDot) < 0

RECURSIVE UpdatedAfter(_, _)
\* updatedBranches after the loop has gone through lines, starting from map.
UpdatedAfter(lines, map) ==
    IF lines = <<>> THEN map
    ELSE LET pieces == Pieces(Head(lines))
         IN  IF Skipped(pieces)
             THEN UpdatedAfter(Tail(lines), map)
             ELSE LET to == Split(pieces[1], DotDot)[2]
                  IN  UpdatedAfter(Tail(lines), MapSet(map, pieces[Len(pieces)], to))

\* updatedBranches at the end of fastForwardBranches.
updatedBranches(combinedOutput) == UpdatedAfter(ExaminedLines(combinedOutput), <<>>)

\* branches.filter(branch => updatedBranches.has(branch.name))
FilterUpdated_Reversed(branches, updated) ==
    LET kept == SelectSeq(branches, LAMBDA branch : MapHas(updated, branch.name))
    IN  [i \in 1..Len(kept) |-> kept[Len(kept) + 1 - i]]

FilterUpdated(branches, updated) ==
    SelectSeq(branches, LAMBDA branch : MapHas(updated, branch.name))

\* successExitCodes of fastForwardBranches.
ffSuccessExitCodes_OnlyZero == {0}

ffSuccessExitCodes == {0, 1}

\* `refs/remotes/${branch.upstream}:refs/heads/${branch.name}`
BranchPair(branch) == <<"refs/remotes/", branch.upstream, ":refs/heads/", branch.name>>

\* The argument list fastForwardBranches hands to git.
ffGitArgs(branches) ==
    <<"-c", "fetch.output=full", "-c", "core.abbrev=40", "fetch", ".",
      "--show-forced-updates", "-v">>
        \o [i \in 1..Len(branches) |-> BranchPair(branches[i])]

FFInit ==
    /\ StoreIdle
    /\ FetchIdle
    /\ ffBranches \in BranchLists
    /\ ffPc = "called"
    /\ ffArgs = <<>>
    /\ ffExit = -1
    /\ ffOutput = <<>>
    /\ ffResult = <<>>

\* fastForwardBranches, up to the start of the git process.
FFRunGit ==
    /\ ffPc = "called"
    /\ ffArgs' = ffGitArgs(ffBranches)
    /\ ffPc' = "running"
    /\ UNCHANGED <<storeVars, fetchVars>>
    /\ UNCHANGED <<ffBranches, ffExit, ffOutput, ffResult>>

\* The git process exits with exitCode after printing combinedOutput: either
\* `await git(...)` rejects, or the output is parsed and the call resolves.
FFGitExits(exitCode, combinedOutput) ==
    /\ ffPc = "running"
    /\ ffExit' = exitCode
    /\ ffOutput' = combinedOutput
    /\ ffPc' = git(exitCode, [successExitCodes |-> ffSuccessExitCodes])
    /\ ffResult' = IF ffPc' = "resolved"
                   THEN FilterUpdated(ffBranches, updatedBranches(combinedOutput))
                   ELSE ffResult
    /\ UNCHANGED <<storeVars, fetchVars>>
    /\ UNCHANGED <<ffBranches, ffArgs>>

FFNext ==
    \/ FFRunGit
    \/ \E exitCode \in ExitCodes, combinedOutput \in CombinedOutputs :
          FFGitExits(exitCode, combinedOutput)

SpecFF == FFInit /\ [][FFNext]_vars

-----------------------------------------------------------------------------
(* Properties of fastForwardBranches *)

\* 'From .' and '+ 1111111..2222222  refs/heads/main  main', the output of
\* claim C10, without and with a newline at the end.
ForcedMainOutputs ==
    { FromLine \o <<LF>> \o ForcedMainLine,
      FromLine \o <<LF>> \o ForcedMainLine \o <<LF>> }

\* 'From .', '   1111111..2222222  refs/heads/main  main' and a newline.
UpdatedMainOutput == FromLine \o <<LF>> \o UpdatedMainLine \o <<LF>>

\* '2222222'
NewId == <<"2", "2", "2", "2", "2", "2", "2">>

\* C10, as claimed: for the output 'From .' followed by the line
\* '+ 1111111..2222222  refs/heads/main  main' and the requested branches
\* [main, dev], the call resolves with exactly [main].
C10_Original ==
    (ffPc = "resolved" /\ ffOutput \in ForcedMainOutputs
        /\ ffBranches = <<MainBranch, DevBranch>>)
        => ffResult = <<MainBranch>>

\* C10, amended: for the output 'From .' followed by the line
\* '   1111111..2222222  refs/heads/main  main', whose first token is the
\* range, and a newline at the end, with the requested branches [main, dev],
\* the call resolves with exactly [main], the id recorded for main is
\* 2222222 and dev is excluded; for the line of the claim, whose first
\* token is '+', the call resolves with no branch.
C10_UpdatedMainOnly ==
    (ffPc = "resolved" /\ ffBranches = <<MainBranch, DevBranch>>) =>
        /\ ffOutput = UpdatedMainOutput =>
              /\ ffResult = <<MainBranch>>
              /\ DOMAIN updatedBranches(ffOutput) = {Main}
              /\ updatedBranches(ffOutput)[Main] = NewId
        /\ ffOutput \in ForcedMainOutputs => ffResult = <<>>

\* The call has resolved with [main] for the amended output and [main, dev].
C10_Witness ==
    /\ ffPc = "resolved"
    /\ ffBranches = <<MainBranch, DevBranch>>
    /\ ffOutput = UpdatedMainOutput
    /\ ffResult = <<MainBranch>>

\* C11: fastForwardBranches resolves exactly when git exits with 0 or 1 and
\* rejects for every other exit code; when it resolves, with either code, it
\* returns branches it was asked for (possibly none), those the output
\* reports as updated; when it rejects it returns nothing.
C11_ExitCodes ==
    ffPc \in {"resolved", "rejected"} =>
        /\ ffPc = "resolved" <=> ffExit \in {0, 1}
        /\ ffPc = "rejected" <=> ffExit \notin {0, 1}
        /\ ffPc = "rejected" => ffResult = <<>>
        /\ ffPc = "resolved" =>
              /\ Range(ffResult) \subseteq Range(ffBranches)
              /\ \A i \in 1..Len(ffBranches) :
                    ffBranches[i] \in Range(ffResult)
                        <=> ffBranches[i].name \in DOMAIN updatedBranches(ffOutput)

\* The call has resolved after git exited with 1, with a branch in the
\* result.
C11_Witness ==
    /\ ffPc = "resolved"
    /\ ffExit = 1
    /\ ffResult # <<>>

\* The tokens of a line: its maximal runs of characters other than spaces.
Tokens(line) == SelectSeq(Split(line, <<SP>>), LAMBDA piece : piece # <<>>)

\* The line is an update line: its first token contains '..'.
IsUpdateLine(line) ==
    /\ Tokens(line) # <<>>
    /\ \E i \in 1..Len(Tokens(line)[1]) : OccursAt(Tokens(line)[1], DotDot, i)

\* One of the lines is an update line whose last token is name.
ReportsUpdateOf(lines, name) ==
    \E i \in 1..Len(lines) :
        /\ IsUpdateLine(lines[i])
        /\ Tokens(lines[i])[Len(Tokens(lines[i]))] = name

\* C17: when fastForwardBranches resolves, what it returns is the requested
\* branches, in the caller's order, that are the last token of an update
\* line among the lines examined: a branch is returned if and only if an
\* examined update line ends with its name, a branch whose name is nowhere
\* in the output is not returned, and an output with a line without tokens
\* is parsed like any other.
C17_ResultIsUpdatedSubsequence ==
    ffPc = "resolved" =>
        /\ ffResult =
              SelectSeq(ffBranches,
                        LAMBDA branch :
                            ReportsUpdateOf(ExaminedLines(ffOutput), branch.name))
        /\ \A i \in 1..Len(ffBranches) :
              NextOccurrence(ffOutput, ffBranches[i].name, 1) = 0
                  => ffBranches[i] \notin Range(ffResult)

\* The call has resolved with [dev, main] for the request [dev, main], after
\* an output that reports the update of main first and of dev second.
C17_Witness ==
    /\ ffPc = "resolved"
    /\ ffBranches = <<DevBranch, MainBranch>>
    /\ ffResult = <<DevBranch, MainBranch>>
    /\ ffOutput = FromLine \o JoinLines(<<UpdatedMainLine, UpdatedDevLine>>) \o <<LF>>

\* The lines C18 says are examined: all the lines of the output but the
\* first one and, when the output ends with a newline, the empty line after
\* that newline.
LinesAfterHeader(combinedOutput) ==
    LET lines == Split(combinedOutput, <<LF>>)
        rest == IF lines = <<>> THEN lines ELSE Tail(lines)
    IN  IF rest # <<>> /\ rest[Len(rest)] = <<>>
        THEN SubSeq(rest, 1, Len(rest) - 1)
        ELSE rest

\* C18: when fastForwardBranches resolves, every requested branch that an
\* update line after the header ends with is returned, whether the output
\* ends with a newline or not: only the header and the blank line after a
\* final newline are left out.
C18_EveryUpdateLineCounts ==
    ffPc = "resolved" =>
        \A i \in 1..Len(ffBranches) :
            ReportsUpdateOf(LinesAfterHeader(ffOutput), ffBranches[i].name)
                => ffBranches[i] \in Range(ffResult)

=============================================================================
